---- MODULE Spec2Model ----
(***************************************************************************)
(* Model of workbook_downloader (src/main.go): a pool of WorkerCount       *)
(* goroutines takes image indices from the buffered channel jobs, calls    *)
(* DownloadImage and publishes an ImageData on the buffered channel        *)
(* results; a helper goroutine closes results after wg.Wait(); main        *)
(* collects the results into imageMap and then adds the images to the PDF  *)
(* in ascending index order.                                               *)
(***************************************************************************)
EXTENDS Integers, Sequences, FiniteSets, TLC

VARIABLES
    first,          \* FirstImageIndex
    last,           \* LastImageIndex
    nworkers,       \* WorkerCount
    stub,           \* what the remote source answers for each index
    mpc,            \* position of main
    mi,             \* loop variable i of main's for loops
    chanCap,        \* capacity of jobs and of results
    jobs,           \* buffered channel jobs (queue of indices)
    jobsClosed,     \* close(jobs) has run
    results,        \* buffered channel results (queue of ImageData)
    resultsClosed,  \* close(results) has run
    wg,             \* counter of the sync.WaitGroup
    wk,             \* per worker goroutine: position and locals
    cpc,            \* position of the goroutine of lines 107-110
    imageMap,       \* map[int]image.Image of main
    pdf,            \* the gofpdf document: its pages and its sticky error
    out,            \* lines printed by main (standard output)
    crashed,        \* the process has panicked
    fetchCount,     \* history: calls of DownloadImage per index
    emitted,        \* history: (index, image) pairs passed to AddImageToPDF
    appended,       \* history: outcome of each AddImageToPDF call
    saved,          \* history: outcome of pdf.OutputFileAndClose
    sent,           \* history: the indices sent on jobs, in order
    round,          \* harness: which run this is ("run", "p1", "p2", "w1", "wN")
    prevOut,        \* harness: the emitted sequence of the previous run
    norm            \* harness: the image under convertTo8Bit, when that is run alone

vars == <<first, last, nworkers, stub, mpc, mi, chanCap, jobs, jobsClosed,
          results, resultsClosed, wg, wk, cpc, imageMap, pdf, out, crashed,
          fetchCount, emitted, appended, saved, sent, round, prevOut, norm>>

cfgVars == <<first, last, nworkers, stub>>

----------------------------------------------------------------------------
(* Bounds of the model *)

MaxFirst == 2
MaxLast == 3
MaxWorkers == 2
\* largest number of indices and workers together
MaxLoad == 5

\* for convertTo8Bit run alone: largest Bounds().Min, largest width, passes
MaxMin == 1
MaxWidth == 2
MaxPasses == 2

----------------------------------------------------------------------------
(* Values *)

Ids == first..last

NoError == "nil"
ErrDownload == "failed to download image"
ErrDecode == "failed to decode image"

\* what one HTTP GET plus image.Decode can give for an index: an image, a
\* transport failure (line 33) or a decode failure (line 39)
FailureKinds == {"net", "decode"}
Outcomes == {"ok"} \cup FailureKinds

\* the remote sources considered: any set of indices may fail, the failures of
\* one source being of one kind
Stubs == UNION {[first..last -> {"ok", k}] : k \in FailureKinds}

\* An image is one row of pixels: Bounds() is [min, min + Len(pix)), pix holds
\* the channel value of each pixel from Bounds().Min on, depth is the bits per
\* channel. A nil image has depth 0.
NilImage == [min |-> 0, pix |-> <<>>, depth |-> 0]

\* the image image.Decode returns for an index whose payload decodes; some
\* sources have 16-bit channels, some 8-bit
Decoded(index) ==
    IF index % 2 = 0
    THEN [min |-> 0, pix |-> <<257 * index, 257 * index>>, depth |-> 16]
    ELSE [min |-> 0, pix |-> <<index, index>>, depth |-> 8]

\* the 8-bit value draw.Draw stores for a source channel value
To8(v, depth) == IF depth = 16 THEN v \div 256 ELSE v

\* convertTo8Bit, lines 47-51: image.NewRGBA(img.Bounds()) is a zeroed 8-bit
\* raster with the source's bounds; draw.Draw(rgba, rgba.Bounds(), img,
\* image.Point{}, draw.Src) aligns rgba.Bounds().Min with the source point
\* (0, 0), so the pixel at x receives the source pixel at x - Bounds().Min,
\* where the source has one, and stays zero elsewhere.
convertTo8Bit(img) ==
    [min |-> img.min,
     pix |-> [k \in 1..Len(img.pix) |->
                LET sx == k - 1
                IN IF sx >= img.min /\ sx < img.min + Len(img.pix)
                   THEN To8(img.pix[sx - img.min + 1], img.depth)
                   ELSE 0],
     depth |-> 8]

\* a DownloadImage that hands back what it decoded along with a decode error
DownloadImageKeepsImage(index) ==
    CASE stub[index] = "net"    -> [Image |-> NilImage, Error |-> ErrDownload]
      [] stub[index] = "decode" -> [Image |-> convertTo8Bit(Decoded(index)),
                                    Error |-> ErrDecode]
      [] OTHER -> [Image |-> convertTo8Bit(Decoded(index)), Error |-> NoError]

\* DownloadImage: (image, error) for the url of an index
DownloadImage(index) ==
    CASE stub[index] = "net"    -> [Image |-> NilImage, Error |-> ErrDownload]
      [] stub[index] = "decode" -> [Image |-> NilImage, Error |-> ErrDecode]
      [] OTHER -> [Image |-> convertTo8Bit(Decoded(index)), Error |-> NoError]

\* the struct literal of line 62
ImageData(index, img, err) == [Index |-> index, Image |-> img, Error |-> err]

IdleWorker == [pc |-> "none", index |-> 0, img |-> NilImage, err |-> NoError]

NewPdf == [pages |-> <<>>, err |-> FALSE]

\* norm while the program itself runs
NoNorm == [img |-> NilImage, before |-> NilImage, passes |-> 0]

\* the state of a process about to run main with a given configuration
Fresh ==
    /\ mpc = "make"
    /\ mi = 0
    /\ chanCap = 0
    /\ jobs = <<>>
    /\ jobsClosed = FALSE
    /\ results = <<>>
    /\ resultsClosed = FALSE
    /\ wg = 0
    /\ wk = [w \in 1..nworkers |-> IdleWorker]
    /\ cpc = "none"
    /\ imageMap = <<>>
    /\ pdf = NewPdf
    /\ out = <<>>
    /\ crashed = FALSE
    /\ fetchCount = [i \in Ids |-> 0]
    /\ emitted = <<>>
    /\ appended = <<>>
    /\ saved = "none"
    /\ sent = <<>>

Init ==
    /\ first \in 1..MaxFirst
    /\ last \in 0..MaxLast
    /\ nworkers \in 1..MaxWorkers
    /\ (last - first + 1) + nworkers <= MaxLoad
    /\ stub \in Stubs
    /\ round = "run"
    /\ prevOut = <<>>
    /\ norm = NoNorm
    /\ Fresh

harnessVars == <<round, prevOut, norm>>

----------------------------------------------------------------------------
(* main, lines 87-110 *)

\* a buffer one slot short of the range
ChanSizeShort == last - first

\* the size given to both make(chan ...) calls, lines 89-90
ChanSize == last - first + 1

\* lines 87-92: gofpdf.New, the two make(chan ..., last-first+1), the WaitGroup.
\* make panics on a negative size.
MainMake ==
    /\ mpc = "make" /\ ~crashed
    /\ IF ChanSize < 0
       THEN /\ crashed' = TRUE
            /\ mpc' = "panic"
            /\ UNCHANGED <<chanCap, mi>>
       ELSE /\ chanCap' = ChanSize
            /\ mpc' = "spawn"
            /\ mi' = 1
            /\ UNCHANGED crashed
    /\ UNCHANGED <<cfgVars, jobs, jobsClosed, results, resultsClosed, wg, wk, cpc,
                   imageMap, pdf, out, fetchCount, emitted, appended, harnessVars, saved, sent>>

\* lines 95-98: wg.Add(1); go worker(i, ...)
\* a loop test that starts one worker too few
SpawnMoreShort == mi < nworkers

\* the loop test of line 95
SpawnMore == mi <= nworkers

MainSpawn ==
    /\ mpc = "spawn" /\ ~crashed
    /\ IF SpawnMore
       THEN /\ wg' = wg + 1
            /\ wk' = [wk EXCEPT ![mi].pc = "range"]
            /\ mi' = mi + 1
            /\ UNCHANGED mpc
       ELSE /\ mpc' = "load"
            /\ mi' = first
            /\ UNCHANGED <<wg, wk>>
    /\ UNCHANGED <<cfgVars, chanCap, jobs, jobsClosed, results, resultsClosed, cpc,
                   imageMap, pdf, out, crashed, fetchCount, emitted, appended,
                   harnessVars, saved, sent>>

\* a loop test that stops one index short
LoadMoreShort == mi < last

\* the loop test of line 101
LoadMore == mi <= last

\* lines 101-104: jobs <- i for every index, then close(jobs).
\* A send on a buffered channel proceeds while the buffer has room.
MainLoad ==
    /\ mpc = "load" /\ ~crashed
    /\ IF LoadMore
       THEN /\ Len(jobs) < chanCap
            /\ jobs' = Append(jobs, mi)
            /\ sent' = Append(sent, mi)
            /\ mi' = mi + 1
            /\ UNCHANGED <<jobsClosed, mpc>>
       ELSE /\ jobsClosed' = TRUE
            /\ mpc' = "gocloser"
            /\ UNCHANGED <<jobs, mi, sent>>
    /\ UNCHANGED <<cfgVars, chanCap, results, resultsClosed, wg, wk, cpc,
                   imageMap, pdf, out, crashed, fetchCount, emitted, appended,
                   harnessVars, saved>>

\* line 107: go func() { wg.Wait(); close(results) }()
MainGoCloser ==
    /\ mpc = "gocloser" /\ ~crashed
    /\ cpc' = "wait"
    /\ mpc' = "collect"
    /\ UNCHANGED <<cfgVars, mi, chanCap, jobs, jobsClosed, results, resultsClosed,
                   wg, wk, imageMap, pdf, out, crashed, fetchCount, emitted,
                   appended, harnessVars, saved, sent>>

----------------------------------------------------------------------------
(* the goroutine of lines 107-110 *)

\* a Wait that does not wait
WgWaitImmediate == TRUE

\* wg.Wait() returns when the counter is zero
WgWaitReturns == wg = 0

CloserWait ==
    /\ cpc = "wait" /\ ~crashed
    /\ WgWaitReturns
    /\ cpc' = "close"
    /\ UNCHANGED <<cfgVars, mpc, mi, chanCap, jobs, jobsClosed, results,
                   resultsClosed, wg, wk, imageMap, pdf, out, crashed, fetchCount,
                   emitted, appended, harnessVars, saved, sent>>

CloserClose ==
    /\ cpc = "close" /\ ~crashed
    /\ resultsClosed' = TRUE
    /\ cpc' = "done"
    /\ UNCHANGED <<cfgVars, mpc, mi, chanCap, jobs, jobsClosed, results, wg, wk,
                   imageMap, pdf, out, crashed, fetchCount, emitted, appended,
                   harnessVars, saved, sent>>

----------------------------------------------------------------------------
(* worker, lines 54-64 *)

\* line 57, for index := range jobs: take the head of the queue, or leave the
\* loop when jobs is closed and empty (the deferred wg.Done() then runs)
WorkerRange(w) ==
    /\ wk[w].pc = "range" /\ ~crashed
    /\ IF Len(jobs) > 0
       THEN /\ wk' = [wk EXCEPT ![w].pc = "download", ![w].index = Head(jobs)]
            /\ jobs' = Tail(jobs)
            /\ UNCHANGED wg
       ELSE /\ jobsClosed
            /\ wk' = [wk EXCEPT ![w].pc = "done"]
            /\ wg' = wg - 1
            /\ UNCHANGED jobs
    /\ UNCHANGED <<cfgVars, mpc, mi, chanCap, jobsClosed, results, resultsClosed,
                   cpc, imageMap, pdf, out, crashed, fetchCount, emitted, appended,
                   harnessVars, saved, sent>>

\* line 61: img, err := DownloadImage(url)
\* whether the HTTP GET of line 32 ever returns for an index: no deadline is
\* set, so a source that never answers keeps the call from returning
Returns(index) == stub[index] # "hang"

WorkerDownload(w) ==
    /\ wk[w].pc = "download" /\ ~crashed
    /\ Returns(wk[w].index)
    /\ LET r == DownloadImage(wk[w].index)
       IN wk' = [wk EXCEPT ![w].pc = "publish", ![w].img = r.Image, ![w].err = r.Error]
    /\ fetchCount' = [fetchCount EXCEPT ![wk[w].index] = @ + 1]
    /\ UNCHANGED <<cfgVars, mpc, mi, chanCap, jobs, jobsClosed, results,
                   resultsClosed, wg, cpc, imageMap, pdf, out, crashed, emitted,
                   appended, harnessVars, saved, sent>>

\* a worker that gives up after a failed fetch
AfterPublishStopOnError(err) == IF err # NoError THEN "done" ELSE "range"

\* where a worker goes after line 62: back to the head of its loop
AfterPublish(err) == "range"

\* line 62: results <- ImageData{...}; a send on a closed channel panics
WorkerPublish(w) ==
    /\ wk[w].pc = "publish" /\ ~crashed
    /\ IF resultsClosed
       THEN /\ crashed' = TRUE
            /\ wk' = [wk EXCEPT ![w].pc = "panic"]
            /\ UNCHANGED results
       ELSE /\ Len(results) < chanCap
            /\ results' = Append(results,
                   ImageData(wk[w].index, wk[w].img, wk[w].err))
            /\ wk' = [wk EXCEPT ![w].pc = AfterPublish(wk[w].err)]
            /\ UNCHANGED crashed
    /\ UNCHANGED <<cfgVars, mpc, mi, chanCap, jobs, jobsClosed, resultsClosed, wg,
                   cpc, imageMap, pdf, out, fetchCount, emitted, appended,
                   harnessVars, saved, sent>>

----------------------------------------------------------------------------
(* main, lines 112-120: the collector *)

Line(msg, index, err) == [msg |-> msg, index |-> index, err |-> err]

\* an error test that lets every result through
IsErrorNever(data) == FALSE

\* line 115: if data.Error != nil
IsError(data) == data.Error # NoError

\* a store keyed by arrival position instead of by index
StoreByArrival(m, data) == ((first + Cardinality(DOMAIN m)) :> data.Image) @@ m

\* a store that always writes the same key
StoreFirstKey(m, data) == (first :> data.Image) @@ m

\* line 119: imageMap[data.Index] = data.Image
Store(m, data) == (data.Index :> data.Image) @@ m

\* a loop over results that ends as soon as the buffer is empty
RangeEndsWhenEmpty == TRUE

\* line 114: the range over results ends when a receive finds the channel
\* closed (and, as this is only asked of an empty buffer, drained)
RangeEnds == resultsClosed

MainCollect ==
    /\ mpc = "collect" /\ ~crashed
    /\ IF Len(results) > 0
       THEN LET data == Head(results)
            IN /\ results' = Tail(results)
               /\ IF IsError(data)
                  THEN /\ out' = Append(out, Line("Error downloading image",
                                                  data.Index, data.Error))
                       /\ UNCHANGED imageMap
                  ELSE /\ imageMap' = Store(imageMap, data)
                       /\ UNCHANGED out
               /\ UNCHANGED <<mpc, mi>>
       ELSE /\ RangeEnds
            /\ mpc' = "emit"
            /\ mi' = first
            /\ UNCHANGED <<results, imageMap, out>>
    /\ UNCHANGED <<cfgVars, chanCap, jobs, jobsClosed, resultsClosed, wg, wk, cpc,
                   pdf, crashed, fetchCount, emitted, appended, harnessVars, saved, sent>>

----------------------------------------------------------------------------
(* main, lines 122-130, and AddImageToPDF, lines 67-84 *)

\* what can happen inside one AddImageToPDF call: png.Encode fails; or the
\* document records an error while registering or placing the image; or neither
AppendOutcomes == {"ok", "encode", "builder"}

\* pdf.AddPage(): gofpdf does nothing once the document holds an error
PdfAddPage(p, index, img) ==
    IF p.err THEN p
    ELSE [p EXCEPT !.pages = Append(@, [index |-> index, image |-> img])]

\* an AddImageToPDF that calls pdf.AddPage() before png.Encode
AddImageToPDFPageFirst(p, img, index, o) ==
    IF o = "encode"
    THEN [pdf |-> PdfAddPage(p, index, img), err |-> "failed to encode image"]
    ELSE [pdf |-> [PdfAddPage(p, index, img) EXCEPT !.err = @ \/ (o = "builder")],
          err |-> NoError]

\* AddImageToPDF: the document after the call, and the error it returns.
\* Only a png.Encode failure is returned (line 71); after pdf.AddPage() the
\* function returns nil whatever the document recorded (line 83).
AddImageToPDF(p, img, index, o) ==
    IF o = "encode"
    THEN [pdf |-> p, err |-> "failed to encode image"]
    ELSE [pdf |-> [PdfAddPage(p, index, img) EXCEPT !.err = @ \/ (o = "builder")],
          err |-> NoError]

\* line 124: if img, exists := imageMap[i]; exists
Exists(i) == i \in DOMAIN imageMap

MainEmit ==
    /\ mpc = "emit" /\ ~crashed
    /\ IF mi <= last
       THEN /\ IF Exists(mi)
               THEN \E o \in AppendOutcomes :
                      LET img == IF mi \in DOMAIN imageMap THEN imageMap[mi]
                                 ELSE NilImage
                          r == AddImageToPDF(pdf, img, mi, o)
                      IN /\ pdf' = r.pdf
                         /\ emitted' = Append(emitted, <<mi, img>>)
                         /\ appended' = Append(appended,
                                               [index |-> mi, outcome |-> o])
                         /\ out' = IF r.err # NoError
                                   THEN Append(out, Line("Error adding image to PDF",
                                                         mi, r.err))
                                   ELSE out
               ELSE UNCHANGED <<pdf, emitted, appended, out>>
            /\ mi' = mi + 1
            /\ UNCHANGED mpc
       ELSE /\ mpc' = "save"
            /\ UNCHANGED <<pdf, emitted, appended, out, mi>>
    /\ UNCHANGED <<cfgVars, chanCap, jobs, jobsClosed, results, resultsClosed, wg,
                   wk, cpc, imageMap, crashed, fetchCount, harnessVars, saved, sent>>

\* lines 133-136: pdf.OutputFileAndClose; it fails when the document holds an
\* error, and may fail on the file system
\* a main that stops when the save fails
AfterSaveExitOnFailure(ok) == IF ok THEN "print" ELSE "exit"

\* a main that prints the final message only when the save succeeded
AfterSaveSkipPrint(ok) == IF ok THEN "print" ELSE "done"

\* where main goes after lines 133-136: on to line 138, whatever the save returned
AfterSave(ok) == "print"

MainSave ==
    /\ mpc = "save" /\ ~crashed
    /\ \E ok \in BOOLEAN :
         /\ pdf.err => ~ok
         /\ out' = IF ok THEN out ELSE Append(out, Line("Error saving PDF", 0, "save"))
         /\ saved' = IF ok THEN "ok" ELSE "failed"
         /\ mpc' = AfterSave(ok)
    /\ UNCHANGED <<cfgVars, mi, chanCap, jobs, jobsClosed, results, resultsClosed,
                   wg, wk, cpc, imageMap, pdf, crashed, fetchCount, emitted,
                   appended, harnessVars, sent>>

\* line 138
MainPrint ==
    /\ mpc = "print" /\ ~crashed
    /\ out' = Append(out, Line("PDF created successfully as final_output.pdf",
                               0, NoError))
    /\ mpc' = "done"
    /\ UNCHANGED <<cfgVars, mi, chanCap, jobs, jobsClosed, results, resultsClosed,
                   wg, wk, cpc, imageMap, pdf, crashed, fetchCount, emitted,
                   appended, harnessVars, saved, sent>>

----------------------------------------------------------------------------
(* The program *)

Next ==
    \/ MainMake
    \/ MainSpawn
    \/ MainLoad
    \/ MainGoCloser
    \/ CloserWait
    \/ CloserClose
    \/ \E w \in 1..nworkers : WorkerRange(w)
    \/ \E w \in 1..nworkers : WorkerDownload(w)
    \/ \E w \in 1..nworkers : WorkerPublish(w)
    \/ MainCollect
    \/ MainEmit
    \/ MainSave
    \/ MainPrint

Spec == Init /\ [][Next]_vars

\* The Go scheduler runs every goroutine that can take a step: main, the
\* goroutine of lines 107-110 and each worker are each weakly fair.
MainStep ==
    \/ MainMake
    \/ MainSpawn
    \/ MainLoad
    \/ MainGoCloser
    \/ MainCollect
    \/ MainEmit
    \/ MainSave
    \/ MainPrint

CloserStep == CloserWait \/ CloserClose

WorkerStep(w) ==
    /\ w \in 1..nworkers
    /\ (WorkerRange(w) \/ WorkerDownload(w) \/ WorkerPublish(w))

Fairness ==
    /\ WF_vars(MainStep)
    /\ WF_vars(CloserStep)
    /\ \A w \in 1..MaxWorkers : WF_vars(WorkerStep(w))

SpecFair == Init /\ [][Next]_vars /\ Fairness

----------------------------------------------------------------------------
(* The collector alone, fed the results of one source in any arrival order, *)
(* twice over: lines 112-139 run on a sealed result channel.                *)

\* all orders in which the elements of a finite set can be queued
Orders(S) ==
    {q \in [1..Cardinality(S) -> S] : \A a, b \in 1..Cardinality(S) : a # b => q[a] # q[b]}

\* one result per index, as the workers publish them (lines 61-62)
ResultSet ==
    {ImageData(i, DownloadImage(i).Image, DownloadImage(i).Error) : i \in Ids}

\* main at line 114 with every worker gone and results sealed
Sealed ==
    /\ mpc = "collect"
    /\ mi = last + 1
    /\ chanCap = last - first + 1
    /\ jobs = <<>>
    /\ jobsClosed = TRUE
    /\ resultsClosed = TRUE
    /\ wg = 0
    /\ wk = [w \in 1..nworkers |-> [IdleWorker EXCEPT !.pc = "done"]]
    /\ cpc = "done"
    /\ imageMap = <<>>
    /\ pdf = NewPdf
    /\ out = <<>>
    /\ crashed = FALSE
    /\ fetchCount = [i \in Ids |-> 1]
    /\ emitted = <<>>
    /\ appended = <<>>
    /\ saved = "none"
    /\ sent = [k \in 1..(last - first + 1) |-> first + k - 1]

InitCollector ==
    /\ first \in 1..MaxFirst
    /\ last \in 0..MaxLast
    /\ first <= last + 1
    /\ nworkers \in 1..MaxWorkers
    /\ stub \in Stubs
    /\ round = "p1"
    /\ prevOut = <<>>
    /\ norm = NoNorm
    /\ results \in Orders(ResultSet)
    /\ Sealed

\* feed the same results again in another arrival order
Refeed ==
    /\ round = "p1" /\ mpc = "done"
    /\ round' = "p2"
    /\ prevOut' = emitted
    /\ UNCHANGED cfgVars
    /\ results' \in Orders(ResultSet)
    /\ mpc' = "collect"
    /\ mi' = last + 1
    /\ imageMap' = <<>>
    /\ pdf' = NewPdf
    /\ out' = <<>>
    /\ emitted' = <<>>
    /\ appended' = <<>>
    /\ saved' = "none"
    /\ UNCHANGED <<chanCap, jobs, jobsClosed, resultsClosed, wg, wk, cpc, crashed,
                   fetchCount, sent, norm>>

NextCollector ==
    \/ MainCollect
    \/ MainEmit
    \/ MainSave
    \/ MainPrint
    \/ Refeed

SpecCollector == InitCollector /\ [][NextCollector]_vars

----------------------------------------------------------------------------
(* The whole program run with one worker, then again with more workers      *)
(* against the same source.                                                 *)

InitCmp ==
    /\ first \in 1..MaxFirst
    /\ last \in 0..MaxLast
    /\ nworkers = 1
    /\ stub \in Stubs
    /\ round = "w1"
    /\ prevOut = <<>>
    /\ norm = NoNorm
    /\ Fresh

Rerun ==
    /\ round = "w1" /\ mpc = "done"
    /\ round' = "wN"
    /\ prevOut' = emitted
    /\ UNCHANGED <<first, last, stub>>
    /\ nworkers' \in 2..MaxWorkers
    /\ (last - first + 1) + nworkers' <= MaxLoad
    /\ mpc' = "make"
    /\ mi' = 0
    /\ chanCap' = 0
    /\ jobs' = <<>>
    /\ jobsClosed' = FALSE
    /\ results' = <<>>
    /\ resultsClosed' = FALSE
    /\ wg' = 0
    /\ wk' = [w \in 1..nworkers' |-> IdleWorker]
    /\ cpc' = "none"
    /\ imageMap' = <<>>
    /\ pdf' = NewPdf
    /\ out' = <<>>
    /\ fetchCount' = [i \in Ids |-> 0]
    /\ emitted' = <<>>
    /\ appended' = <<>>
    /\ saved' = "none"
    /\ sent' = <<>>
    /\ UNCHANGED <<crashed, norm>>

NextCmp == Next \/ Rerun

SpecCmp == InitCmp /\ [][NextCmp]_vars

----------------------------------------------------------------------------
(* The whole program against a source that may leave one request unanswered *)

HangStubs == Stubs \cup {[s EXCEPT ![i] = "hang"] : s \in Stubs, i \in first..last}

InitHang ==
    /\ first \in 1..MaxFirst
    /\ last \in 0..MaxLast
    /\ nworkers \in 1..MaxWorkers
    /\ (last - first + 1) + nworkers <= MaxLoad
    /\ stub \in HangStubs
    /\ round = "hang"
    /\ prevOut = <<>>
    /\ norm = NoNorm
    /\ Fresh

SpecHang == InitHang /\ [][Next]_vars

----------------------------------------------------------------------------
(* convertTo8Bit alone, applied again and again to one image *)

\* some channel values of an image of the given depth
PixelValues(depth) == IF depth = 16 THEN {0, 32768, 65535} ELSE {0, 128, 255}

\* the images given to convertTo8Bit: any Bounds().Min from 0 on (a decoded
\* frame or a SubImage need not start at the origin), 8 or 16 bits per channel
SourceImages ==
    UNION {{[min |-> m, pix |-> p, depth |-> d] :
               m \in 0..MaxMin,
               p \in UNION {[1..n -> PixelValues(d)] : n \in 1..MaxWidth}} :
           d \in {8, 16}}

InitNormalize ==
    /\ first = 1
    /\ last = 0
    /\ nworkers = 1
    /\ stub \in Stubs
    /\ round = "norm"
    /\ prevOut = <<>>
    /\ norm \in {[img |-> i, before |-> i, passes |-> 0] : i \in SourceImages}
    /\ Fresh

Normalize ==
    /\ round = "norm"
    /\ norm.passes < MaxPasses
    /\ norm' = [img |-> convertTo8Bit(norm.img), before |-> norm.img,
                passes |-> norm.passes + 1]
    /\ UNCHANGED <<cfgVars, mpc, mi, chanCap, jobs, jobsClosed, results,
                   resultsClosed, wg, wk, cpc, imageMap, pdf, out, crashed,
                   fetchCount, emitted, appended, saved, sent, round, prevOut>>

NextNormalize == Normalize

SpecNormalize == InitNormalize /\ [][NextNormalize]_vars

----------------------------------------------------------------------------
(* Properties *)

AllWorkersExited == \A w \in 1..nworkers : wk[w].pc = "done"

\* main has left the receive loop of lines 114-120
PastCollect == mpc \in {"emit", "save", "print", "done"}

\* main has left the loop of lines 123-130
PastEmit == mpc \in {"save", "print", "done"}

\* the indices whose single fetch returns an image
Succeeded == {i \in Ids : DownloadImage(i).Error = NoError}

EmittedIds == [k \in 1..Len(emitted) |-> emitted[k][1]]

Ascending(q) == \A k \in 1..(Len(q) - 1) : q[k] < q[k + 1]

Range(q) == {q[k] : k \in 1..Len(q)}

\* the indices whose result the collector has received
Consumed ==
    DOMAIN imageMap \cup
    {out[k].index : k \in {j \in 1..Len(out) : out[j].msg = "Error downloading image"}}

\* C1: DownloadImage is never called twice for an index, and once every
\* worker has exited it has been called exactly once for every index of
\* [first, last].
C1_FetchedExactlyOnce ==
    /\ \A i \in Ids : fetchCount[i] <= 1
    /\ AllWorkersExited => \A i \in Ids : fetchCount[i] = 1

C1_Witness ==
    /\ AllWorkersExited
    /\ nworkers >= 2
    /\ last - first + 1 >= 3
    /\ \E i \in Ids : stub[i] # "ok"
    /\ \A i \in Ids : fetchCount[i] = 1

\* C2: the indices handed to AddImageToPDF are strictly ascending, each is an
\* index whose fetch succeeded and carries an image (no placeholder), and
\* when the loop is over they are exactly the indices whose fetch succeeded.
C2_EmittedAscendingSuccesses ==
    /\ Ascending(EmittedIds)
    /\ \A k \in 1..Len(emitted) :
          /\ emitted[k][1] \in Succeeded
          /\ fetchCount[emitted[k][1]] = 1
          /\ emitted[k][2] # NilImage
    /\ PastEmit => Range(EmittedIds) = Succeeded

C2_Witness ==
    /\ mpc = "done"
    /\ Len(emitted) >= 2
    /\ \E i \in Ids : stub[i] # "ok" /\ emitted[1][1] < i /\ i < emitted[2][1]

\* C3: whenever results is closed every worker has exited, no worker has
\* panicked on a send to a closed channel, and main is past its receive loop
\* only if results has been closed.
C3_SealedAfterWorkers ==
    /\ resultsClosed => AllWorkersExited
    /\ \A w \in 1..nworkers : wk[w].pc # "panic"
    /\ PastCollect => resultsClosed

C3_Witness ==
    /\ resultsClosed
    /\ nworkers >= 2
    /\ mpc = "collect"
    /\ Len(results) >= 2
    /\ AllWorkersExited

\* C4: when the first AddImageToPDF call happens (and from the moment main
\* leaves the receive loop) results is closed and empty and the result of
\* every index of [first, last] has been received.
C4_EmitAfterSealAndDrain ==
    /\ emitted # <<>> => PastCollect
    /\ PastCollect => /\ resultsClosed
                      /\ results = <<>>
                      /\ Consumed = Ids

C4_Witness ==
    /\ mpc = "emit"
    /\ Len(emitted) = 1
    /\ last - first + 1 >= 2
    /\ nworkers >= 2
    /\ \E i \in Ids : stub[i] # "ok"

\* C5: the collector fed the same results in a second arrival order hands
\* AddImageToPDF the same sequence of (index, image) pairs as the first time.
C5_ArrivalOrderIrrelevant ==
    (round = "p2" /\ PastEmit) => emitted = prevOut

\* second feeding, index `first` arriving last, after a first output of 3 pairs
C5_Witness ==
    /\ round = "p2"
    /\ mpc = "collect"
    /\ Len(prevOut) >= 3
    /\ Len(results) = 1
    /\ results[1].Index = first
    /\ Cardinality(DOMAIN imageMap) >= 2

\* C6: against the same source, a finished run with N > 1 workers has handed
\* AddImageToPDF the same sequence of (index, image) pairs as the finished run
\* with one worker.
C6_WorkerCountIrrelevant ==
    (round = "wN" /\ mpc = "done") => (nworkers > 1 /\ emitted = prevOut)

C6_Witness ==
    /\ round = "wN"
    /\ mpc = "done"
    /\ nworkers >= 2
    /\ Len(emitted) >= 2
    /\ emitted = prevOut
    /\ \E i \in Ids : stub[i] # "ok"

\* the result of index i is in the result channel or has been received
Published(i) == i \in Consumed \/ \E k \in 1..Len(results) : results[k].Index = i

\* C7: a failed fetch stops nothing and shows only in its result: the process
\* does not panic; a worker exits only when jobs is closed and empty; the
\* worker holding a failed fetch holds its error for publication; once all
\* workers have exited every index has been fetched and its result published;
\* and a failed index has no map entry, no page, no AddImageToPDF call, and
\* only its "Error downloading image" line with its error on the output.
C7_FailureContained ==
    /\ (\E i \in Ids : stub[i] # "ok") => ~crashed
    /\ \A w \in 1..nworkers :
          /\ wk[w].pc = "done" => (jobsClosed /\ jobs = <<>>)
          /\ wk[w].pc = "publish" =>
                /\ wk[w].err = DownloadImage(wk[w].index).Error
                /\ wk[w].img = DownloadImage(wk[w].index).Image
    /\ AllWorkersExited => \A i \in Ids : fetchCount[i] = 1 /\ Published(i)
    /\ \A i \in Ids \ Succeeded :
          /\ i \notin DOMAIN imageMap
          /\ i \notin Range(EmittedIds)
          /\ \A k \in 1..Len(pdf.pages) : pdf.pages[k].index # i
          /\ \A k \in 1..Len(out) :
                out[k].index = i =>
                   /\ out[k].msg = "Error downloading image"
                   /\ out[k].err = DownloadImage(i).Error

C7_Witness ==
    /\ AllWorkersExited
    /\ nworkers >= 2
    /\ \E i, j \in Ids :
          /\ i < j
          /\ stub[i] # "ok"
          /\ stub[j] = "ok"
          /\ i \in Consumed
          /\ j \in DOMAIN imageMap

\* C8 (as claimed): with an empty range, first > last by any amount, the run
\* does not panic, fetches nothing, and ends with nothing emitted, no page and
\* results closed.
C8_EmptyRangeCompletes ==
    first > last =>
        /\ ~crashed
        /\ mpc # "panic"
        /\ mpc = "done" => (emitted = <<>> /\ pdf.pages = <<>> /\ resultsClosed
                            /\ AllWorkersExited)

PageIds == [k \in 1..Len(pdf.pages) |-> pdf.pages[k].index]

C10_AppendErrorReportedAndSkipped ==
    /\ \A k \in 1..Len(appended) :
          appended[k].outcome # "ok" =>
             /\ \E j \in 1..Len(out) : /\ out[j].msg = "Error adding image to PDF"
                                       /\ out[j].index = appended[k].index
             /\ appended[k].index \notin Range(PageIds)
    /\ PastEmit => Range(EmittedIds) = DOMAIN imageMap

SaveErrorLines == {k \in 1..Len(out) : out[k].msg = "Error saving PDF"}

\* C11: a failed save is reported by one "Error saving PDF" line (a successful
\* one by none), happens after the loop of lines 123-130 has handled every
\* stored index, and leaves main where a successful save leaves it: at line
\* 138, able to run it, or at the normal end, with no panic.
C11_SaveFailureReportedOnly ==
    /\ saved = "failed" =>
          /\ Cardinality(SaveErrorLines) = 1
          /\ mpc \in {"print", "done"}
          /\ ~crashed
          /\ mpc = "print" => ENABLED MainPrint
    /\ saved = "ok" => (SaveErrorLines = {} /\ mpc \in {"print", "done"})
    /\ saved # "none" => Range(EmittedIds) = DOMAIN imageMap
    /\ mpc = "done" => saved # "none"

C11_Witness ==
    /\ saved = "failed"
    /\ mpc = "done"
    /\ ~pdf.err
    /\ Len(pdf.pages) >= 2

\* the state the pipeline is to reach: workers gone, results sealed and
\* drained, every result received, emission and save done, main at its end
Finished ==
    /\ AllWorkersExited
    /\ resultsClosed
    /\ results = <<>>
    /\ Consumed = Ids
    /\ saved # "none"
    /\ mpc = "done"

\* C12 (as claimed): with every fetch returning and fair scheduling, every
\* run eventually reaches the finished state.
C12_RunsToCompletion == <>Finished

\* the same for the runs whose channels can be made (first <= last + 1)
RunsToCompletionWhenChannelsMade == (ChanSize >= 0) => <>Finished

\* C13: every ImageData a worker holds for publication or has put on results
\* has an image exactly when it has no error.
C13_ImageXorError ==
    /\ \A k \in 1..Len(results) :
          (results[k].Image # NilImage) <=> (results[k].Error = NoError)
    /\ \A w \in 1..nworkers :
          wk[w].pc = "publish" => ((wk[w].img # NilImage) <=> (wk[w].err = NoError))

C13_Witness ==
    /\ Len(results) >= 3
    /\ \E a, b, c \in 1..Len(results) :
          /\ results[a].Error = ErrDecode /\ results[a].Image = NilImage
          /\ results[b].Error = NoError /\ results[b].Image.depth = 8
          /\ results[c].Error = NoError /\ results[c].Index % 2 = 0

\* how many results of index i exist: on the result channel, in imageMap, and
\* as "Error downloading image" lines
Holdings(i) ==
    Cardinality({k \in 1..Len(results) : results[k].Index = i})
    + (IF i \in DOMAIN imageMap THEN 1 ELSE 0)
    + Cardinality({k \in 1..Len(out) :
                      out[k].msg = "Error downloading image" /\ out[k].index = i})

\* C14: at every moment each index has at most one result across the result
\* channel, imageMap and the error lines (so a store never hits an existing
\* key), imageMap holds only indices of the range, each with the image fetched
\* for it, and once main has left the receive loop every index has exactly one
\* result in the collector's record: as many consumed as there are indices.
C14_ConsumedExactlyOnce ==
    /\ \A i \in Ids : Holdings(i) <= 1
    /\ DOMAIN imageMap \subseteq Ids
    /\ \A i \in DOMAIN imageMap : imageMap[i] = DownloadImage(i).Image
    /\ \A k \in 1..Len(results) :
          results[k].Index \in Ids /\ results[k].Index \notin DOMAIN imageMap
    /\ PastCollect =>
          /\ \A i \in Ids : Holdings(i) = 1
          /\ Cardinality(DOMAIN imageMap)
             + Cardinality({k \in 1..Len(out) : out[k].msg = "Error downloading image"})
             = Cardinality(Ids)

C14_Witness ==
    /\ mpc = "emit"
    /\ nworkers >= 2
    /\ Cardinality(Ids) = 3
    /\ Cardinality(DOMAIN imageMap) = 2
    /\ \E k \in 1..Len(out) : out[k].msg = "Error downloading image"

\* C15 (as claimed): convertTo8Bit applied to an image that is itself the
\* output of convertTo8Bit returns an image with the same bounds and pixels.
C15_NormalizeIdempotent ==
    norm.passes >= 2 => norm.img = norm.before

\* the same for images whose bounds start at the origin
NormalizeIdempotentAtOrigin ==
    (norm.passes >= 2 /\ norm.img.min = 0) => norm.img = norm.before

\* the indices of the range in ascending order
AllIdsInOrder == [k \in 1..(last - first + 1) |-> first + k - 1]

\* C16: the indices sent on jobs are first, first+1, ... in order, each once;
\* what jobs holds is an ascending run of them; once jobs is closed they are
\* all the indices of the range and stay so (nothing is sent after the close);
\* and a worker that has left its loop did so with jobs closed and empty.
C16_QueueLoadedOnceThenClosed ==
    /\ Len(sent) <= Len(AllIdsInOrder)
    /\ sent = SubSeq(AllIdsInOrder, 1, Len(sent))
    /\ Ascending(jobs)
    /\ Range(jobs) \subseteq Range(sent)
    /\ jobsClosed <=> (mpc \notin {"make", "panic", "spawn", "load"})
    /\ jobsClosed => sent = AllIdsInOrder
    /\ \A w \in 1..nworkers : wk[w].pc = "done" => (jobsClosed /\ jobs = <<>>)

C16_Witness ==
    /\ jobsClosed
    /\ Len(sent) = 3
    /\ nworkers >= 2
    /\ \E w, v \in 1..nworkers : wk[w].pc = "done" /\ wk[v].pc = "download"

\* the workers inside DownloadImage
InFlight == {w \in 1..nworkers : wk[w].pc = "download"}

\* the workers whose goroutine has been started
Started == {w \in 1..nworkers : wk[w].pc # "none"}

\* C17: the loop of lines 95-98 starts workers 1, 2, ... and when it is over
\* exactly WorkerCount are started (none before it, none after); the WaitGroup
\* counts the started workers that have not exited; the fetches in flight are
\* at most WorkerCount and at most the size of the range, each for an index
\* of the range that no other fetch in flight has.
C17_BoundedParallelism ==
    /\ mpc \in {"make", "panic"} => Started = {}
    /\ mpc = "spawn" => Started = 1..(mi - 1)
    /\ mpc \notin {"make", "panic", "spawn"} => Cardinality(Started) = nworkers
    /\ wg = Cardinality({w \in Started : wk[w].pc # "done"})
    /\ Cardinality(InFlight) <= nworkers
    /\ Cardinality(InFlight) <= Cardinality(Ids)
    /\ \A w \in InFlight : wk[w].index \in Ids
    /\ \A w, v \in InFlight : w # v => wk[w].index # wk[v].index

C17_Witness ==
    /\ nworkers = 2
    /\ Cardinality(InFlight) = 2
    /\ Cardinality(Ids) = 3
    /\ Len(jobs) = 1

\* C18: jobs and results never hold more than last-first+1 items; whenever
\* main is about to send an index on jobs the buffer has room; whenever a
\* worker is about to publish, results is open and its buffer has room. So
\* neither send ever waits for a receiver.
C18_SendsNeverBlock ==
    /\ Len(jobs) <= Cardinality(Ids)
    /\ Len(results) <= Cardinality(Ids)
    /\ (mpc = "load" /\ LoadMore) => Len(jobs) < chanCap
    /\ \A w \in 1..nworkers :
          wk[w].pc = "publish" =>
             /\ ~resultsClosed
             /\ Len(results) < chanCap
             /\ ENABLED WorkerPublish(w)

\* every worker gone and results sealed with all three results still
\* unreceived
C18_Witness ==
    /\ resultsClosed
    /\ AllWorkersExited
    /\ Len(results) = 3
    /\ imageMap = <<>>
    /\ out = <<>>
    /\ mpc = "collect"

\* the source leaves the request for some index unanswered
Hung == \E i \in Ids : stub[i] = "hang"

\* C19: when the fetch of one index never returns, results is never closed,
\* main never leaves its receive loop, AddImageToPDF is never called, no page
\* is added and the save is never run.
C19_HungFetchBlocksPipeline ==
    Hung => /\ ~resultsClosed
            /\ cpc # "done"
            /\ ~PastCollect
            /\ emitted = <<>>
            /\ pdf.pages = <<>>
            /\ saved = "none"

\* nothing can move: one worker is inside the fetch that never returns, the
\* other has exited, and main has received the results of the two other
\* indices and waits on the open, empty results
C19_Witness ==
    /\ Hung
    /\ Cardinality(Ids) = 3
    /\ nworkers = 2
    /\ \E w, v \in 1..nworkers :
          /\ wk[w].pc = "download" /\ stub[wk[w].index] = "hang"
          /\ wk[v].pc = "done"
          /\ Consumed = Ids \ {wk[w].index}
    /\ mpc = "collect"
    /\ results = <<>>
    /\ ~ENABLED Next

SuccessLines ==
    {k \in 1..Len(out) : out[k].msg = "PDF created successfully as final_output.pdf"}

\* C20: once the save step has run, main is at line 138 and can run it, or has
\* run it; the success message is printed there and nowhere else, as the last
\* line of the output, whether the save succeeded or failed; after a failed
\* save the line before it is the "Error saving PDF" report.
C20_SuccessMessageAlways ==
    /\ saved # "none" => mpc \in {"print", "done"}
    /\ mpc = "print" => (ENABLED MainPrint /\ SuccessLines = {})
    /\ mpc # "done" => SuccessLines = {}
    /\ mpc = "done" =>
          /\ SuccessLines = {Len(out)}
          /\ saved = "failed" =>
                /\ Len(out) >= 2
                /\ out[Len(out) - 1].msg = "Error saving PDF"
          /\ saved = "ok" => SaveErrorLines = {}

C20_Witness ==
    /\ mpc = "done"
    /\ saved = "failed"
    /\ pdf.err
    /\ Len(out) >= 3
    /\ out[Len(out) - 1].msg = "Error saving PDF"
    /\ out[Len(out)].msg = "PDF created successfully as final_output.pdf"

====
